---- MODULE Spec2Model ----
(***************************************************************************)
(* Seasonal Bloom Calendar (src/app.py).                                   *)
(*                                                                         *)
(* A Python str is a sequence of one-character strings, so that the        *)
(* regular expressions, strip(), lower(), capitalize() and split() of the  *)
(* script are computed character by character.  A Python value is a record *)
(* [type, s]: type "str" carries its characters in s, any other type       *)
(* (float NaN, None) carries none.                                         *)
(*                                                                         *)
(* Spec    : one rendering pass of the script (load, trim, select, filter, *)
(*           render).                                                      *)
(* SpecFn  : the helper functions extract_seasons and map_color_token      *)
(*           applied to inputs drawn from bounded sets.                    *)
(***************************************************************************)
EXTENDS Integers, Sequences, FiniteSets, TLC

VARIABLES
    call,       \* SpecFn: the helper call under way, [fn, arg]
    ret,        \* SpecFn: its outcome, [kind, val]
    pc,         \* Spec: position of the script
    file,       \* Spec: plants.csv on disk, [exists, columns, rows]
    plants,     \* Spec: the loaded table, [columns, rows]
    selected,   \* Spec: the four sidebar multiselects
    filtered,   \* Spec: the filtered rows
    shown,      \* Spec: what the pass has put on the page
    reported,   \* Spec: the column names the st.error of load_plants lists
    bars        \* Spec: the bars drawn on the chart

vars == <<call, ret, pc, file, plants, selected, filtered, shown, reported, bars>>

(***************************************************************************)
(* Bounds of the model.                                                    *)
(***************************************************************************)
MaxClauses == 2      \* comma-separated clauses of a season descriptor
MaxPad == 2          \* characters of a whitespace-only input
MaxColorParts == 3   \* words and separators of a colour description
MaxRows == 2         \* rows of plants.csv
MaxAbsent == 2       \* columns a header line of plants.csv lacks

(***************************************************************************)
(* Characters and Python's str methods.                                    *)
(***************************************************************************)
UpperAlpha == <<"A","B","C","D","E","F","G","H","I","J","K","L","M",
                "N","O","P","Q","R","S","T","U","V","W","X","Y","Z">>
LowerAlpha == <<"a","b","c","d","e","f","g","h","i","j","k","l","m",
                "n","o","p","q","r","s","t","u","v","w","x","y","z">>
Digits == {"0","1","2","3","4","5","6","7","8","9"}
Whitespace == {" ", "\t"}

Range(s) == {s[i] : i \in 1..Len(s)}

UpperLetters == Range(UpperAlpha)
LowerLetters == Range(LowerAlpha)

\* the lower case of each upper case letter, and the reverse
ToLower == [c \in UpperLetters |-> LowerAlpha[CHOOSE i \in 1..Len(UpperAlpha) : UpperAlpha[i] = c]]
ToUpper == [c \in LowerLetters |-> UpperAlpha[CHOOSE i \in 1..Len(LowerAlpha) : LowerAlpha[i] = c]]

\* str.lower() / str.upper() of one character
LowerChar(c) == IF c \in UpperLetters THEN ToLower[c] ELSE c
UpperChar(c) == IF c \in LowerLetters THEN ToUpper[c] ELSE c

lower(s) == [i \in 1..Len(s) |-> LowerChar(s[i])]

\* str.capitalize(): first character upper case, the rest lower case
capitalize_lower_only(s) == lower(s)
capitalize(s) == [i \in 1..Len(s) |-> IF i = 1 THEN UpperChar(s[i]) ELSE LowerChar(s[i])]

RECURSIVE lstrip(_, _)
lstrip(s, chars) ==
    IF s # <<>> /\ Head(s) \in chars THEN lstrip(Tail(s), chars) ELSE s

RECURSIVE rstrip(_, _)
rstrip(s, chars) ==
    IF s # <<>> /\ s[Len(s)] \in chars THEN rstrip(SubSeq(s, 1, Len(s) - 1), chars) ELSE s

\* str.strip() and str.strip(chars)
strip(s) == rstrip(lstrip(s, Whitespace), Whitespace)
strip_chars(s, chars) == rstrip(lstrip(s, chars), chars)

\* str.split() without arguments: the maximal runs of non-whitespace
RECURSIVE split_ws(_, _)
split_ws(s, word) ==
    IF s = <<>> THEN (IF word = <<>> THEN <<>> ELSE <<word>>)
    ELSE IF Head(s) \in Whitespace
         THEN (IF word = <<>> THEN <<>> ELSE <<word>>) \o split_ws(Tail(s), <<>>)
         ELSE split_ws(Tail(s), Append(word, Head(s)))

split(s) == split_ws(s, <<>>)

InSeq(x, seq) == \E i \in 1..Len(seq) : seq[i] = x

(***************************************************************************)
(* Python values and call outcomes.                                        *)
(***************************************************************************)
PyStr(s) == [type |-> "str", s |-> s]
PyNaN == [type |-> "float", s |-> <<>>]
PyNone == [type |-> "NoneType", s |-> <<>>]

Return(v) == [kind |-> "return", val |-> v]
Raise(e) == [kind |-> "raise", val |-> e]
NoRet == [kind |-> "none", val |-> <<>>]

(***************************************************************************)
(* extract_seasons                                                         *)
(***************************************************************************)
kw_spring == <<"s", "p", "r", "i", "n", "g">>
kw_summer == <<"s", "u", "m", "m", "e", "r">>
kw_autumn == <<"a", "u", "t", "u", "m", "n">>
kw_fall == <<"f", "a", "l", "l">>
kw_winter == <<"w", "i", "n", "t", "e", "r">>

Spring == <<"S", "p", "r", "i", "n", "g">>
Summer == <<"S", "u", "m", "m", "e", "r">>
Autumn == <<"A", "u", "t", "u", "m", "n">>
Winter == <<"W", "i", "n", "t", "e", "r">>

\* the alternatives of r'(spring|summer|autumn|fall|winter)', in order
SeasonPatternNoFall == <<kw_spring, kw_summer, kw_autumn, kw_winter>>
SeasonPattern == <<kw_spring, kw_summer, kw_autumn, kw_fall, kw_winter>>

\* alternative w matches s at position i under re.I
AltMatchesAt(s, i, w) ==
    /\ i + Len(w) - 1 <= Len(s)
    /\ \A k \in 1..Len(w) : LowerChar(s[i + k - 1]) = w[k]

\* the first alternative that matches at i, 0 if none does
MatchAt(s, i) ==
    IF \E a \in 1..Len(SeasonPattern) : AltMatchesAt(s, i, SeasonPattern[a])
    THEN CHOOSE a \in 1..Len(SeasonPattern) :
            /\ AltMatchesAt(s, i, SeasonPattern[a])
            /\ \A b \in 1..(a - 1) : ~AltMatchesAt(s, i, SeasonPattern[b])
    ELSE 0

\* re.findall: the non-overlapping matches, scanning left to right from i
RECURSIVE findall(_, _)
findall(s, i) ==
    IF i > Len(s) THEN <<>>
    ELSE LET a == MatchAt(s, i) IN
         IF a = 0 THEN findall(s, i + 1)
         ELSE <<SubSeq(s, i, i + Len(SeasonPattern[a]) - 1)>>
                  \o findall(s, i + Len(SeasonPattern[a]))

\* lines 32-36: the canonical name of one match
SeasonOf(f) ==
    LET f_low == lower(f) IN
    IF f_low = kw_fall THEN Autumn ELSE capitalize(f_low)

\* lines 37-38: if s not in mapped: mapped.append(s)
AppendAlways(mapped, s) == Append(mapped, s)
AppendIfNew(mapped, s) == IF InSeq(s, mapped) THEN mapped ELSE Append(mapped, s)

\* lines 30-38: the loop over the matches
RECURSIVE MapFound(_, _)
MapFound(found, mapped) ==
    IF found = <<>> THEN mapped
    ELSE MapFound(Tail(found), AppendIfNew(mapped, SeasonOf(Head(found))))

extract_seasons_unguarded(text) ==
    IF text.type # "str" THEN Raise("TypeError")
    ELSE Return(MapFound(findall(text.s, 1), <<>>))
extract_seasons(text) ==
    IF text.type # "str" THEN Return(<<>>)
    ELSE Return(MapFound(findall(text.s, 1), <<>>))

(***************************************************************************)
(* map_color_token                                                         *)
(***************************************************************************)
ColorSeparators == {"/", ",", ";", "|", "-"}

\* re.split(r'[/,;|-]', color_text)[0]: the text before the first separator
RECURSIVE SplitFirst(_)
SplitFirst(s) ==
    IF s = <<>> \/ Head(s) \in ColorSeparators THEN <<>>
    ELSE <<Head(s)>> \o SplitFirst(Tail(s))

c_yellow == <<"y", "e", "l", "l", "o", "w">>
c_red == <<"r", "e", "d">>
c_pink == <<"p", "i", "n", "k">>
c_white == <<"w", "h", "i", "t", "e">>
c_purple == <<"p", "u", "r", "p", "l", "e">>
c_blue == <<"b", "l", "u", "e">>
c_orange == <<"o", "r", "a", "n", "g", "e">>
c_cream == <<"c", "r", "e", "a", "m">>
c_green == <<"g", "r", "e", "e", "n">>
c_gold == <<"g", "o", "l", "d">>
c_brown == <<"b", "r", "o", "w", "n">>
c_lavender == <<"l", "a", "v", "e", "n", "d", "e", "r">>
c_hotpink == <<"h", "o", "t", "p", "i", "n", "k">>
c_lightgray == <<"l", "i", "g", "h", "t", "g", "r", "a", "y">>
c_darkorange == <<"d", "a", "r", "k", "o", "r", "a", "n", "g", "e">>
c_wheat == <<"w", "h", "e", "a", "t">>
c_saddlebrown == <<"s", "a", "d", "d", "l", "e", "b", "r", "o", "w", "n">>
c_violet == <<"v", "i", "o", "l", "e", "t">>

\* the dict of lines 47-60, as (key, value) pairs
color_map == <<
    <<c_yellow, c_gold>>,
    <<c_red, c_red>>,
    <<c_pink, c_hotpink>>,
    <<c_white, c_lightgray>>,
    <<c_purple, c_purple>>,
    <<c_blue, c_blue>>,
    <<c_orange, c_darkorange>>,
    <<c_cream, c_wheat>>,
    <<c_green, c_green>>,
    <<c_gold, c_gold>>,
    <<c_brown, c_saddlebrown>>,
    <<c_lavender, c_violet>> >>

\* color_map.get(token, token)
color_map_get(token) ==
    IF \E i \in 1..Len(color_map) : color_map[i][1] = token
    THEN color_map[CHOOSE i \in 1..Len(color_map) : color_map[i][1] = token][2]
    ELSE token

\* line 46: token.split()[-1]; IndexError when split() is empty
FirstWord(token) ==
    LET words == split(token) IN
    IF words = <<>> THEN Raise("IndexError") ELSE Return(words[1])
LastWord(token) ==
    LET words == split(token) IN
    IF words = <<>> THEN Raise("IndexError") ELSE Return(words[Len(words)])

map_color_token(color_text) ==
    IF color_text.type # "str" \/ strip(color_text.s) = <<>>
    THEN Return(c_lightgray)
    ELSE LET token == lower(strip(SplitFirst(color_text.s)))
             word == LastWord(token)
         IN  IF word.kind = "raise" THEN word
             ELSE Return(color_map_get(word.val))

(***************************************************************************)
(* The inputs of the helper functions.                                     *)
(***************************************************************************)

\* canonical season order for the x-axis (line 136)
season_order == <<Spring, Summer, Autumn, Winter>>

\* season_order.index(name)
SeasonIndex(name) == CHOOSE i \in 1..Len(season_order) : season_order[i] = name

Monsoon == <<"M", "o", "n", "s", "o", "o", "n">>
Springfield == <<"S", "p", "r", "i", "n", "g", "f", "i", "e", "l", "d">>
w_Pale == <<"P", "a", "l", "e">>
w_Purple == <<"P", "u", "r", "p", "l", "e">>
w_Lavender == <<"L", "a", "v", "e", "n", "d", "e", "r">>
w_unknownhue == <<"u", "n", "k", "n", "o", "w", "n", "h", "u", "e">>
w_RED == <<"R", "E", "D">>


RECURSIVE Join(_, _)
Join(parts, joiner) ==
    IF parts = <<>> THEN <<>>
    ELSE IF Len(parts) = 1 THEN parts[1]
    ELSE parts[1] \o joiner \o Join(Tail(parts), joiner)

\* every spelling of w in upper and lower case letters
CaseVariants(w) ==
    { [i \in 1..Len(w) |-> IF i \in U THEN UpperChar(w[i]) ELSE w[i]] :
        U \in SUBSET (1..Len(w)) }

\* every range "A-B" of two seasons, and single words
RangeClauses ==
    {season_order[a] \o <<"-">> \o season_order[b] :
        a \in 1..Len(season_order), b \in 1..Len(season_order)}
Clauses == RangeClauses \cup {Spring, Monsoon, kw_fall, Springfield}
Joiners == {<<",">>, <<",", " ">>}

\* strings of at most n whitespace characters
WhitespaceStrings(n) == UNION {[1..k -> Whitespace] : k \in 0..n}

SeasonTexts ==
    (UNION {CaseVariants(SeasonPattern[a]) : a \in 1..Len(SeasonPattern)})
    \cup {Join(cs, j) : cs \in UNION {[1..k -> Clauses] : k \in 1..MaxClauses},
                        j \in Joiners}
    \cup WhitespaceStrings(MaxPad)

ColorParts ==
    {w_Pale, w_Purple, w_Lavender, w_unknownhue}
    \cup {<<c>> : c \in ColorSeparators \cup {" "}}

ColorTexts ==
    {Join(ps, <<>>) : ps \in UNION {[1..k -> ColorParts] : k \in 0..MaxColorParts}}
    \cup WhitespaceStrings(MaxPad)
    \cup {w_RED, c_yellow \o <<"/">> \o c_white}

Calls ==
    {[fn |-> "extract_seasons", arg |-> a] :
        a \in {PyStr(s) : s \in SeasonTexts} \cup {PyNaN, PyNone}}
    \cup
    {[fn |-> "map_color_token", arg |-> a] :
        a \in {PyStr(s) : s \in ColorTexts} \cup {PyNaN, PyNone}}

NoCall == [fn |-> "none", arg |-> PyNone]

(***************************************************************************)
(* SpecFn: one call of a helper function.                                  *)
(***************************************************************************)
PassIdle ==
    /\ pc = "idle"
    /\ file = [exists |-> FALSE, columns |-> <<>>, rows |-> <<>>]
    /\ plants = [columns |-> <<>>, rows |-> <<>>]
    /\ selected = [sun |-> {}, soil_type |-> {}, flower_color |-> {},
                   drought_tolerant |-> {}]
    /\ filtered = <<>>
    /\ shown = {}
    /\ reported = <<>>
    /\ bars = {}

passVars == <<pc, file, plants, selected, filtered, shown, reported, bars>>

InitFn ==
    /\ call \in Calls
    /\ ret = NoRet
    /\ PassIdle

ExtractSeasonsCall ==
    /\ call.fn = "extract_seasons"
    /\ ret = NoRet
    /\ ret' = extract_seasons(call.arg)
    /\ UNCHANGED <<call, passVars>>

MapColorTokenCall ==
    /\ call.fn = "map_color_token"
    /\ ret = NoRet
    /\ ret' = map_color_token(call.arg)
    /\ UNCHANGED <<call, passVars>>

NextFn == ExtractSeasonsCall \/ MapColorTokenCall

SpecFn == InitFn /\ [][NextFn]_vars

(***************************************************************************)
(* normalize_columns                                                       *)
(***************************************************************************)
\* \w of the regular expression (ASCII)
WordChars == UpperLetters \cup LowerLetters \cup Digits \cup {"_"}

\* .str.replace(r'[^\w]+', '_', regex=True): every run of non-word
\* characters becomes one underscore
RECURSIVE ReplaceNonWord(_, _)
ReplaceNonWord(s, inRun) ==
    IF s = <<>> THEN <<>>
    ELSE IF Head(s) \in WordChars
         THEN <<Head(s)>> \o ReplaceNonWord(Tail(s), FALSE)
         ELSE (IF inRun THEN <<>> ELSE <<"_">>) \o ReplaceNonWord(Tail(s), TRUE)

\* lines 15-22, for one header
NormalizeHeader(h) == strip_chars(ReplaceNonWord(lower(strip(h)), FALSE), {"_"})

normalize_columns(columns) == [i \in 1..Len(columns) |-> NormalizeHeader(columns[i])]

(***************************************************************************)
(* plants.csv                                                              *)
(***************************************************************************)
h_scientific_name == <<"s", "c", "i", "e", "n", "t", "i", "f", "i", "c", "_", "n", "a", "m", "e">>
h_common_name == <<"c", "o", "m", "m", "o", "n", "_", "n", "a", "m", "e">>
h_sun == <<"s", "u", "n">>
h_soil_type == <<"s", "o", "i", "l", "_", "t", "y", "p", "e">>
h_drought_tolerant == <<"d", "r", "o", "u", "g", "h", "t", "_", "t", "o", "l", "e", "r", "a", "n", "t">>
h_mature_size_m == <<"m", "a", "t", "u", "r", "e", "_", "s", "i", "z", "e", "_", "m">>
h_flower_color == <<"f", "l", "o", "w", "e", "r", "_", "c", "o", "l", "o", "r">>
h_blooming_season == <<"b", "l", "o", "o", "m", "i", "n", "g", "_", "s", "e", "a", "s", "o", "n">>
h_mature_size == <<"m", "a", "t", "u", "r", "e", "_", "s", "i", "z", "e">>

\* the same headers as a spreadsheet export spells them
r_scientific_name == <<"S", "c", "i", "e", "n", "t", "i", "f", "i", "c", " ", "N", "a", "m", "e">>
r_common_name == <<"C", "o", "m", "m", "o", "n", " ", "N", "a", "m", "e">>
r_sun == <<" ", "S", "u", "n", " ">>
r_soil_type == <<"S", "o", "i", "l", "-", "T", "y", "p", "e">>
r_drought_tolerant == <<"D", "r", "o", "u", "g", "h", "t", " ", "T", "o", "l", "e", "r", "a", "n", "t", "?">>
r_mature_size_m == <<"M", "a", "t", "u", "r", "e", " ", "S", "i", "z", "e", " ", "(", "m", ")">>
r_flower_color == <<"F", "l", "o", "w", "e", "r", " ", "C", "o", "l", "o", "r">>
r_blooming_season == <<"B", "l", "o", "o", "m", "i", "n", "g", " ", " ", "S", "e", "a", "s", "o", "n">>
r_mature_size == <<"M", "a", "t", "u", "r", "e", " ", "S", "i", "z", "e">>

\* the logical columns a file may hold, each in two spellings
HeaderSpellings == <<
    <<h_scientific_name, r_scientific_name>>,
    <<h_common_name, r_common_name>>,
    <<h_sun, r_sun>>,
    <<h_soil_type, r_soil_type>>,
    <<h_drought_tolerant, r_drought_tolerant>>,
    <<h_mature_size_m, r_mature_size_m>>,
    <<h_flower_color, r_flower_color>>,
    <<h_blooming_season, r_blooming_season>>,
    <<h_mature_size, r_mature_size>> >>

\* the header line holding the logical columns of `present`, in file order
RECURSIVE HeaderLine(_, _, _)
HeaderLine(present, style, k) ==
    IF k > Len(HeaderSpellings) THEN <<>>
    ELSE (IF k \in present THEN <<HeaderSpellings[k][style]>> ELSE <<>>)
            \o HeaderLine(present, style, k + 1)

HeaderLines ==
    {HeaderLine((1..Len(HeaderSpellings)) \ absent, style, 1) :
        absent \in {a \in SUBSET (1..Len(HeaderSpellings)) : Cardinality(a) <= MaxAbsent},
        style \in {1, 2}}

\* cell values as read_csv delivers them
v_full == <<" ", "F", "u", "l", "l">>
v_part == <<"P", "a", "r", "t">>
v_clay == <<"C", "l", "a", "y">>
v_sand == <<"S", "a", "n", "d", " ">>
v_yes == <<"Y", "e", "s">>
v_no == <<"N", "o">>
v_pale_purple == <<"P", "a", "l", "e", " ", "P", "u", "r", "p", "l", "e">>
v_yellow_white == <<"Y", "e", "l", "l", "o", "w", "/", "W", "h", "i", "t", "e">>
v_dash_red == <<"-", "r", "e", "d">>
v_winter_spring == <<"W", "i", "n", "t", "e", "r", "-", "S", "p", "r", "i", "n", "g">>
v_summer_fall == <<"S", "u", "m", "m", "e", "r", ",", " ", "F", "a", "l", "l">>
v_monsoon == <<"M", "o", "n", "s", "o", "o", "n">>
n_acacia == <<"A", "c", "a", "c", "i", "a">>
n_banksia == <<"B", "a", "n", "k", "s", "i", "a">>
n_correa == <<"C", "o", "r", "r", "e", "a">>
n_dianella == <<"D", "i", "a", "n", "e", "l", "l", "a">>
n_eremophila == <<"E", "r", "e", "m", "o", "p", "h", "i", "l", "a">>
n_ficinia == <<"F", "i", "c", "i", "n", "i", "a">>
s_nan == <<"n", "a", "n">>

Row(name, sun, soil, drought, color, season) ==
    [scientific_name |-> name, sun |-> sun, soil_type |-> soil,
     drought_tolerant |-> drought, flower_color |-> color,
     blooming_season |-> season]

\* the rows a file is made of (common_name and mature_size_m are never read)
RowPool == <<
    Row(PyStr(n_acacia), PyStr(v_full), PyStr(v_clay), PyStr(v_yes),
        PyStr(v_pale_purple), PyStr(v_winter_spring)),
    Row(PyStr(n_banksia), PyStr(v_part), PyStr(v_sand), PyStr(v_no),
        PyStr(v_yellow_white), PyStr(v_summer_fall)),
    Row(PyStr(n_correa), PyStr(v_full), PyStr(v_sand), PyStr(v_no),
        PyStr(v_dash_red), PyStr(v_winter_spring)),
    Row(PyStr(n_dianella), PyStr(v_part), PyStr(v_clay), PyStr(v_yes),
        PyStr(v_pale_purple), PyNaN),
    Row(PyStr(n_eremophila), PyStr(v_part), PyStr(v_clay), PyStr(v_no),
        PyStr(v_dash_red), PyStr(v_monsoon)),
    Row(PyStr(n_ficinia), PyStr(v_full), PyStr(v_sand), PyStr(v_yes),
        PyStr(v_yellow_white), PyStr(v_winter_spring)) >>

\* tables of at most MaxRows rows of the pool, in pool order
Tables ==
    UNION { { [i \in 1..k |-> RowPool[ix[i]]] :
                ix \in {f \in [1..k -> 1..Len(RowPool)] :
                            \A i \in 1..k, j \in 1..k : i < j => f[i] < f[j]} } :
            k \in 0..MaxRows }

NoFile == [exists |-> FALSE, columns |-> <<>>, rows |-> <<>>]

Files ==
    {NoFile} \cup
    {[exists |-> TRUE, columns |-> h, rows |-> t] : h \in HeaderLines, t \in Tables}

(***************************************************************************)
(* load_plants                                                             *)
(***************************************************************************)
required_short == <<
    h_scientific_name, h_common_name, h_sun, h_soil_type,
    h_drought_tolerant, h_mature_size_m, h_flower_color >>
required == <<
    h_scientific_name, h_common_name, h_sun, h_soil_type,
    h_drought_tolerant, h_mature_size_m, h_flower_color, h_blooming_season >>

\* line 85: the required names that are no column, in the order of `required`
missing(columns) == SelectSeq(required, LAMBDA c : ~InSeq(c, columns))

NoPlants == [columns |-> <<>>, rows |-> <<>>]
NoSelection == [sun |-> {}, soil_type |-> {}, flower_color |-> {},
                drought_tolerant |-> {}]

\* lines 69-71: FileNotFoundError
LoadPlantsNotFound ==
    /\ pc = "start"
    /\ ~file.exists
    /\ shown' = shown \cup {"error_not_found"}
    /\ pc' = "stopped"
    /\ UNCHANGED <<call, ret, file, plants, selected, filtered, reported, bars>>

\* lines 73-90: a required column is missing
LoadPlantsMissing ==
    /\ pc = "start"
    /\ file.exists
    /\ LET columns == normalize_columns(file.columns) IN
        /\ missing(columns) # <<>>
        /\ reported' = missing(columns)
        /\ shown' = shown \cup {"error_missing", "detected_columns"}
    /\ pc' = "stopped"
    /\ UNCHANGED <<call, ret, file, plants, selected, filtered, bars>>

\* lines 73-93: the table is returned
LoadPlantsOk ==
    /\ pc = "start"
    /\ file.exists
    /\ LET columns == normalize_columns(file.columns) IN
        /\ missing(columns) = <<>>
        /\ plants' = [columns |-> columns, rows |-> file.rows]
    /\ pc' = "loaded"
    /\ UNCHANGED <<call, ret, file, selected, filtered, shown, reported, bars>>

(***************************************************************************)
(* The script after load_plants.                                           *)
(***************************************************************************)
\* .astype(str): a missing cell (NaN) becomes the text "nan"
astype_str(v) == IF v.type = "str" THEN v.s ELSE s_nan

\* lines 96-97: the six text columns are converted to str and trimmed
TrimStrings ==
    /\ pc = "loaded"
    /\ plants' = [plants EXCEPT !.rows =
                    [i \in 1..Len(plants.rows) |->
                        [c \in DOMAIN plants.rows[i] |->
                            strip(astype_str(plants.rows[i][c]))]]]
    /\ pc' = "trimmed"
    /\ UNCHANGED <<call, ret, file, selected, filtered, shown, reported, bars>>

\* lines 103-106: the distinct values of a column
Options(column) == {plants.rows[i][column] : i \in 1..Len(plants.rows)}

\* lines 108-111: each multiselect returns a subset of its options
SelectFilters ==
    /\ pc = "trimmed"
    /\ \E selected_sun \in SUBSET Options("sun"),
          selected_soil \in SUBSET Options("soil_type"),
          selected_color \in SUBSET Options("flower_color"),
          selected_drought \in SUBSET Options("drought_tolerant") :
            selected' = [sun |-> selected_sun, soil_type |-> selected_soil,
                         flower_color |-> selected_color,
                         drought_tolerant |-> selected_drought]
    /\ pc' = "selected"
    /\ UNCHANGED <<call, ret, file, plants, filtered, shown, reported, bars>>

\* lines 115-118: the mask of one row
KeepAny(row) ==
    \/ row.sun \in selected.sun
    \/ row.soil_type \in selected.soil_type
    \/ row.flower_color \in selected.flower_color
    \/ row.drought_tolerant \in selected.drought_tolerant
Keep(row) ==
    /\ row.sun \in selected.sun
    /\ row.soil_type \in selected.soil_type
    /\ row.flower_color \in selected.flower_color
    /\ row.drought_tolerant \in selected.drought_tolerant

\* lines 114-125: the filter, the count and the preview
ApplyFilters ==
    /\ pc = "selected"
    /\ filtered' = SelectSeq(plants.rows, Keep)
    /\ shown' = shown \cup {"count", "preview"}
    /\ pc' = "filtered"
    /\ UNCHANGED <<call, ret, file, plants, selected, reported, bars>>

\* lines 132-133: nothing matches
ShowWarning ==
    /\ pc = "filtered"
    /\ filtered = <<>>
    /\ shown' = shown \cup {"warning"}
    /\ pc' = "done"
    /\ UNCHANGED <<call, ret, file, plants, selected, filtered, reported, bars>>

\* lines 154-164: the bars of one row
RowBars(i, seasons, color) ==
    {[y |-> i - 1, left |-> SeasonIndex(seasons[k]) - 1, color |-> color] :
        k \in {n \in 1..Len(seasons) : InSeq(seasons[n], season_order)}}

\* lines 147-164: the loop over the filtered rows; an exception of
\* map_color_token leaves the loop
RECURSIVE DrawRows(_, _, _)
DrawRows(rows, i, drawn) ==
    IF i > Len(rows) THEN Return(drawn)
    ELSE LET seasons == extract_seasons(PyStr(rows[i].blooming_season)).val IN
         IF seasons = <<>> THEN DrawRows(rows, i + 1, drawn)
         ELSE LET color == map_color_token(PyStr(rows[i].flower_color)) IN
              IF color.kind = "raise" THEN color
              ELSE DrawRows(rows, i + 1, drawn \cup RowBars(i, seasons, color.val))

\* lines 134-211: the chart and the two download buttons
RenderChart ==
    /\ pc = "filtered"
    /\ filtered # <<>>
    /\ LET drawn == DrawRows(filtered, 1, {}) IN
        \/ /\ drawn.kind = "return"
           /\ bars' = drawn.val
           /\ shown' = shown \cup {"chart", "png", "csv"}
           /\ pc' = "done"
        \/ /\ drawn.kind = "raise"
           /\ bars' = bars
           /\ shown' = shown \cup {"exception"}
           /\ pc' = "crashed"
    /\ UNCHANGED <<call, ret, file, plants, selected, filtered, reported>>

Init ==
    /\ call = NoCall
    /\ ret = NoRet
    /\ pc = "start"
    /\ file \in Files
    /\ plants = NoPlants
    /\ selected = NoSelection
    /\ filtered = <<>>
    /\ shown = {}
    /\ reported = <<>>
    /\ bars = {}

Next ==
    \/ LoadPlantsNotFound
    \/ LoadPlantsMissing
    \/ LoadPlantsOk
    \/ TrimStrings
    \/ SelectFilters
    \/ ApplyFilters
    \/ ShowWarning
    \/ RenderChart

Spec == Init /\ [][Next]_vars

(***************************************************************************)
(* Properties of extract_seasons (checked under SpecFn).                   *)
(***************************************************************************)
Returned(fn) == call.fn = fn /\ ret.kind # "none"

AutumnSpring == <<"A", "u", "t", "u", "m", "n", "-", "S", "p", "r", "i", "n", "g">>
SpringAutumn == <<"S", "p", "r", "i", "n", "g", "-", "A", "u", "t", "u", "m", "n">>
SpringSpringSummer == <<"S", "p", "r", "i", "n", "g", ",", "S", "p", "r", "i", "n", "g",
                        "-", "S", "u", "m", "m", "e", "r">>
MonsoonSpring == <<"M", "o", "n", "s", "o", "o", "n", ",", "S", "p", "r", "i", "n", "g">>
SPRING_upper == <<"S", "P", "R", "I", "N", "G">>

\* C1: for a range clause "A-B" with A after B in the cycle, extract_seasons
\* returns the tail of the cycle from A followed by its head up to B;
\* "Autumn-Spring" returns [Autumn, Winter, Spring].
C1_WrappingRange ==
    \A ia \in 1..Len(season_order), ib \in 1..Len(season_order) :
        (/\ ia > ib
         /\ Returned("extract_seasons")
         /\ call.arg = PyStr(season_order[ia] \o <<"-">> \o season_order[ib]))
        => ret = Return(SubSeq(season_order, ia, Len(season_order))
                        \o SubSeq(season_order, 1, ib))

\* C2: for a range clause "A-B" with index(A) <= index(B), extract_seasons
\* returns the contiguous part of the cycle from A to B inclusive;
\* "Spring-Autumn" returns [Spring, Summer, Autumn].
C2_ForwardRange ==
    \A ia \in 1..Len(season_order), ib \in 1..Len(season_order) :
        (/\ ia <= ib
         /\ Returned("extract_seasons")
         /\ call.arg = PyStr(season_order[ia] \o <<"-">> \o season_order[ib]))
        => ret = Return(SubSeq(season_order, ia, ib))

\* the clause is free of the comma and of the range separator
PlainClause(s) == "," \notin Range(s) /\ "-" \notin Range(s)

\* w occurs in s at position i, letter case ignored
OccursAt(s, i, w) ==
    /\ i >= 1
    /\ i + Len(w) - 1 <= Len(s)
    /\ lower(SubSeq(s, i, i + Len(w) - 1)) = w

Occurs(s, w) == \E i \in 1..Len(s) : OccursAt(s, i, w)

\* the season each word of the pattern stands for
KeywordSeason ==
    { <<kw_spring, Spring>>, <<kw_summer, Summer>>, <<kw_autumn, Autumn>>,
      <<kw_fall, Autumn>>, <<kw_winter, Winter>> }

\* C3 as stated: a clause without range separator contributes a season only
\* if the whole trimmed clause is, case-insensitively, one of Spring, Summer,
\* Autumn, Winter; any other clause contributes nothing and raises nothing;
\* "Monsoon,Spring" returns [Spring].
C3_WholeClauseOnly ==
    /\ (Returned("extract_seasons") /\ call.arg.type = "str" /\ PlainClause(call.arg.s))
        => /\ ret.kind = "return"
           /\ ret.val # <<>> =>
                lower(strip(call.arg.s)) \in {kw_spring, kw_summer, kw_autumn, kw_winter}
    /\ (Returned("extract_seasons") /\ call.arg = PyStr(MonsoonSpring))
        => ret = Return(<<Spring>>)

\* C3 amended: a clause without range separator contributes exactly the
\* seasons whose word (spring, summer, autumn, fall, winter; fall standing
\* for Autumn) occurs anywhere in it, letter case ignored; a clause holding
\* none of these words contributes nothing and raises nothing;
\* "Monsoon,Spring" returns [Spring].
C3_KeywordAnywhere ==
    /\ (Returned("extract_seasons") /\ call.arg.type = "str" /\ PlainClause(call.arg.s))
        => /\ ret.kind = "return"
           /\ Range(ret.val) = {ks[2] : ks \in {x \in KeywordSeason : Occurs(call.arg.s, x[1])}}
    /\ (Returned("extract_seasons") /\ call.arg = PyStr(MonsoonSpring))
        => ret = Return(<<Spring>>)

C3_Witness ==
    /\ Returned("extract_seasons")
    /\ call.arg = PyStr(Springfield)
    /\ ret = Return(<<Spring>>)

\* the first position of s where a word standing for the season occurs
FirstEmitted(s, season) ==
    LET at == {i \in 1..Len(s) :
                \E ks \in KeywordSeason : ks[2] = season /\ OccursAt(s, i, ks[1])}
    IN  CHOOSE i \in at : \A j \in at : i <= j

\* C4: for every input string the result holds no season twice, and the
\* seasons stand in the order of their first emission, left to right;
\* "Spring,Spring-Summer" returns [Spring, Summer].
C4_DedupFirstSeen ==
    /\ (Returned("extract_seasons") /\ call.arg.type = "str")
        => /\ ret.kind = "return"
           /\ \A i \in 1..Len(ret.val), j \in 1..Len(ret.val) :
                 i < j => /\ ret.val[i] # ret.val[j]
                          /\ FirstEmitted(call.arg.s, ret.val[i])
                                < FirstEmitted(call.arg.s, ret.val[j])
    /\ (Returned("extract_seasons") /\ call.arg = PyStr(SpringSpringSummer))
        => ret = Return(<<Spring, Summer>>)

C4_Witness ==
    /\ Returned("extract_seasons")
    /\ call.arg = PyStr(SpringSpringSummer)
    /\ ret = Return(<<Spring, Summer>>)

\* C5: a single clause that is a canonical season name in any letter case
\* yields the one-element sequence of that season, first letter upper case
\* and the rest lower case.
C5_SingleSeasonCanonical ==
    \A ks \in {<<kw_spring, Spring>>, <<kw_summer, Summer>>,
               <<kw_autumn, Autumn>>, <<kw_winter, Winter>>} :
        (/\ Returned("extract_seasons")
         /\ call.arg.type = "str"
         /\ Len(call.arg.s) = Len(ks[1])
         /\ \A i \in 1..Len(ks[1]) : call.arg.s[i] \in {ks[1][i], UpperChar(ks[1][i])})
        => ret = Return(<<ks[2]>>)

C5_Witness ==
    /\ Returned("extract_seasons")
    /\ call.arg = PyStr(SPRING_upper)
    /\ ret = Return(<<Spring>>)

\* C8: empty, whitespace-only and non-string input yields the empty
\* sequence and raises nothing.
C8_BlankInputEmpty ==
    (/\ Returned("extract_seasons")
     /\ \/ call.arg.type # "str"
        \/ \A i \in 1..Len(call.arg.s) : call.arg.s[i] \in Whitespace)
    => ret = Return(<<>>)

C8_Witness ==
    /\ Returned("extract_seasons")
    /\ call.arg = PyNaN
    /\ ret = Return(<<>>)

(***************************************************************************)
(* Properties of map_color_token (checked under SpecFn).                   *)
(***************************************************************************)
PalePurple == <<"P", "a", "l", "e", " ", "P", "u", "r", "p", "l", "e">>

\* C6 as stated: map_color_token("Pale Purple") returns "violet".
C6_PalePurpleViolet ==
    (Returned("map_color_token") /\ call.arg = PyStr(PalePurple))
    => ret = Return(c_violet)

\* C6 amended: map_color_token("Pale Purple") returns "purple", the table's
\* entry for the lowercased last word of the first separator-delimited token.
C6_PalePurplePurple ==
    (Returned("map_color_token") /\ call.arg = PyStr(PalePurple))
    => ret = Return(c_purple)

C6_Witness ==
    /\ Returned("map_color_token")
    /\ call.arg = PyStr(PalePurple)
    /\ ret.kind = "return"

IsBlank(v) == v.type # "str" \/ \A i \in 1..Len(v.s) : v.s[i] \in Whitespace

\* C7: map_color_token never raises: blank or non-string input returns
\* "lightgray"; any other string, also one that starts with a separator,
\* returns a colour value, an unknown first word returning itself in lower
\* case ("unknownhue" returns "unknownhue").
C7_NeverRaises ==
    Returned("map_color_token")
    => /\ ret.kind = "return"
       /\ IsBlank(call.arg) => ret = Return(c_lightgray)
       /\ call.arg = PyStr(w_unknownhue) => ret = Return(w_unknownhue)

(***************************************************************************)
(* Properties of the rendering pass (checked under Spec).                  *)
(***************************************************************************)
Filtered == pc \in {"filtered", "done", "crashed"}

\* C9: a row is kept only if its sun, soil_type, flower_color and
\* drought_tolerant values are each in the selected set, so an empty
\* selection in any one category leaves no row; and a pass whose filtered
\* table is empty shows the warning, no chart and no PNG or CSV download.
C9_FilterAndEmptyResult ==
    /\ Filtered =>
        /\ \A i \in 1..Len(filtered) :
              /\ filtered[i].sun \in selected.sun
              /\ filtered[i].soil_type \in selected.soil_type
              /\ filtered[i].flower_color \in selected.flower_color
              /\ filtered[i].drought_tolerant \in selected.drought_tolerant
        /\ (\E c \in DOMAIN selected : selected[c] = {}) => filtered = <<>>
    /\ (Filtered /\ filtered = <<>>) => shown \cap {"chart", "png", "csv"} = {}
    /\ (pc \in {"done", "crashed"} /\ filtered = <<>>) =>
        /\ pc = "done"
        /\ "warning" \in shown
        /\ bars = {}

C9_Witness ==
    /\ pc = "done"
    /\ Len(plants.rows) = MaxRows
    /\ selected.sun = {}
    /\ selected.soil_type = Options("soil_type")
    /\ selected.flower_color = Options("flower_color")
    /\ selected.drought_tolerant = Options("drought_tolerant")
    /\ filtered = <<>>
    /\ "warning" \in shown

\* what the pass shows or computes only after load_plants has returned
AfterLoad == {"count", "preview", "warning", "chart", "png", "csv", "exception"}

\* the verdict of load_plants against a given list of required names
LoadVerdict(names) ==
    (pc # "start" /\ file.exists) =>
        LET lacking == names \ Range(normalize_columns(file.columns)) IN
        IF lacking # {}
        THEN /\ pc = "stopped"
             /\ "error_missing" \in shown
             /\ Range(reported) = lacking
             /\ Len(reported) = Cardinality(lacking)
             /\ shown \cap AfterLoad = {}
             /\ plants = NoPlants /\ filtered = <<>> /\ bars = {}
        ELSE /\ pc # "stopped"
             /\ "error_missing" \notin shown
             /\ reported = <<>>
             /\ plants.columns = normalize_columns(file.columns)
             /\ Len(plants.rows) = Len(file.rows)

\* C10 as stated: the required columns are scientific_name, common_name,
\* sun, soil_type, drought_tolerant, mature_size, flower_color,
\* blooming_season; if one is missing after normalization load_plants lists
\* exactly the missing ones and halts, otherwise it returns the table.
C10_RequiredMatureSize ==
    LoadVerdict({h_scientific_name, h_common_name, h_sun, h_soil_type,
                 h_drought_tolerant, h_mature_size, h_flower_color,
                 h_blooming_season})

\* C10 amended: the same with the required column mature_size_m in the
\* place of mature_size.
C10_RequiredMatureSizeM ==
    LoadVerdict({h_scientific_name, h_common_name, h_sun, h_soil_type,
                 h_drought_tolerant, h_mature_size_m, h_flower_color,
                 h_blooming_season})

C10_Witness ==
    /\ pc = "stopped"
    /\ file.exists
    /\ reported = <<h_soil_type, h_mature_size_m>>
    /\ r_mature_size \in Range(file.columns)
    /\ "error_missing" \in shown

====
